---- MODULE Spec2Model ----
(***************************************************************************)
(* A model of the two driver scripts of machina, example/run_mpc.py (the   *)
(* model-based aggregation loop) and example/run_trpo.py (the TRPO loop),  *)
(* together with the trajectory store, the episode transforms and the      *)
(* advantage estimator they call, and of the base class of state-action    *)
(* value functions, machina/vfuncs/state_action_vfuncs/base.py.  The       *)
(* drivers and the base class are translated statement group by statement  *)
(* group; the trajectory store (machina.traj.Traj), the episode transforms *)
(* (machina.traj.epi_functional) and the estimator (GAEData) are not part  *)
(* of the source tree and are modelled from their documented contract.     *)
(*                                                                         *)
(* Numbers: rewards are integers, a mean is the exact rational <<s, n>>    *)
(* (s / n, n > 0), so that the float comparisons of the drivers are exact. *)
(* Parameters of a network or an optimizer are abstracted to the number of *)
(* training calls that produced them.                                      *)
(***************************************************************************)
EXTENDS Integers, Sequences, FiniteSets, TLC

VARIABLES
    prog,               \* what runs: "mpc", "trpo" or "savfunc"
    pc,                 \* position in the driver
    args,               \* parsed command line
    env_pool,           \* the episodes the environment can produce
    scan_counts,        \* Traj.num_epi / num_step: direct scan (TRUE) or flat view
    horizon,            \* the horizon compute_h_masks uses
    heap,               \* Traj objects, by object id
    traj,               \* run_mpc: object id bound to `traj` (0: unbound)
    curr_traj,          \* run_mpc: object id bound to `curr_traj` (0: unbound)
    epis,               \* the sampler's last batch (`epis` / `paths`)
    norm_stats,         \* run_mpc: mean_obs, std_obs, mean_acs, std_acs
    mpc_pol,            \* run_mpc: the MPC policy object
    dm,                 \* run_mpc: dynamics model parameters
    optim_dm,           \* run_mpc: optimizer state
    pol,                \* run_trpo: policy parameters
    vf,                 \* run_trpo: value function parameters
    optim_vf,           \* run_trpo: optimizer state
    total_epi,
    total_step,
    counter_agg_iters,
    max_rew,
    step,
    mean_rew,
    rows,               \* the tabular metrics log, one row per record call
    files,              \* the checkpoint files under <log>/models
    data,               \* run_trpo: the GAEData object `data` (NoData: unbound)
    savf,               \* a BaseSAVfunc object (NoSavfunc: none constructed)
    sav_call,           \* the last _check_*_shape call: method, argument, result
    collected,          \* history: every episode a sampler returned, in order
    saved_max_at        \* history: the iterations that wrote the "best" checkpoint

vars == <<prog, pc, args, env_pool, scan_counts, horizon, heap, traj,
          curr_traj, epis, norm_stats, mpc_pol, dm, optim_dm, pol, vf,
          optim_vf, total_epi, total_step, counter_agg_iters, max_rew, step,
          mean_rew, rows, files, data, savf, sav_call, collected,
          saved_max_at>>

(***************************************************************************)
(* Bounds of the model.                                                    *)
(***************************************************************************)
MaxIters == 2
MaxBatch == 2
MaxRandom == 1
MaxHorizon == 1
MaxEpisodes == 3
MaxLen == 7
MaxMaskHorizon == 5
MaxMaskEpis == 3
MaxGaeLen == 3
MaxSpaceRank == 2
MaxRank == 4

(***************************************************************************)
(* Exact rationals <<numerator, denominator>>, denominator > 0.            *)
(***************************************************************************)
RatGt(a, b) == a[1] * b[2] > b[1] * a[2]
RatEq(a, b) == a[1] * b[2] = b[1] * a[2]

RECURSIVE Gcd(_, _)
Gcd(a, b) == IF b = 0 THEN a ELSE Gcd(b, a % b)

\* The one element of a singleton.  The operations below bind their
\* arguments as elements of singletons, so that each is evaluated once.
The(S) == CHOOSE r \in S : TRUE

\* The rational in lowest terms.
RatNorm(a) ==
    The({ <<x[1] \div Gcd(IF x[1] < 0 THEN -x[1] ELSE x[1], x[2]),
            x[2] \div Gcd(IF x[1] < 0 THEN -x[1] ELSE x[1], x[2])>> : x \in {a} })

RatAdd(a, b) ==
    The({ RatNorm(<<x[1] * y[2] + y[1] * x[2], x[2] * y[2]>>) : x \in {a}, y \in {b} })

RatSub(a, b) ==
    The({ RatNorm(<<x[1] * y[2] - y[1] * x[2], x[2] * y[2]>>) : x \in {a}, y \in {b} })

RatMul(a, b) ==
    The({ RatNorm(<<x[1] * y[1], x[2] * y[2]>>) : x \in {a}, y \in {b} })

RECURSIVE RatSum(_)
RatSum(s) == IF s = <<>> THEN <<0, 1>> ELSE RatAdd(Head(s), RatSum(Tail(s)))

RECURSIVE SumSeq(_)
SumSeq(s) == IF s = <<>> THEN 0 ELSE Head(s) + SumSeq(Tail(s))

RECURSIVE SumSq(_)
SumSq(s) == IF s = <<>> THEN 0 ELSE Head(s) * Head(s) + SumSq(Tail(s))

RECURSIVE Concat(_)
Concat(ss) == IF ss = <<>> THEN <<>> ELSE Head(ss) \o Concat(Tail(ss))

(***************************************************************************)
(* Episode records: a mapping from field name to a per-timestep sequence.   *)
(***************************************************************************)
EpiLen(epi) == Len(epi.rews)

EpiReturn(epi) == SumSeq(epi.rews)

EpiLens(es) == [i \in 1..Len(es) |-> EpiLen(es[i])]

EpiReturns(es) == [i \in 1..Len(es) |-> EpiReturn(es[i])]

\* The environment of the aggregation runs: a one-step episode with a
\* negative return and a two-step episode with a positive return.
EpiPool ==
    { [obs |-> <<0>>, acs |-> <<1>>, rews |-> <<-2>>, dones |-> <<TRUE>>],
      [obs |-> <<1, 2>>, acs |-> <<0, 1>>, rews |-> <<1, 2>>,
       dones |-> <<FALSE, TRUE>>] }

\* Batches of k episodes of pool p, in every order.
BatchesOf(p, k) == [1..k -> p]

\* The batch a sampler returns, its episodes identified by <<batch, index>>.
MakeEpis(batch, b) ==
    [i \in 1..Len(batch) |-> ("id" :> <<b, i>>) @@ batch[i]]

EpiIds(es) == [i \in 1..Len(es) |-> es[i].id]

(***************************************************************************)
(* Trajectory store (machina.traj.Traj), from its contract: an ordered     *)
(* collection of episodes plus a registered flat view, the index that      *)
(* locates each flat position's episode and offset.  `valid` says that the *)
(* flat view was built by register_epis and nothing changed the episodes   *)
(* since.                                                                  *)
(***************************************************************************)
NewTraj == [epis |-> <<>>, flat |-> <<>>, valid |-> FALSE]

\* add_epis: appends; does not register.
AddEpis(t, es) == [t EXCEPT !.epis = @ \o es, !.valid = FALSE]

RECURSIVE FlatFrom(_, _)
FlatFrom(es, e) ==
    IF e > Len(es) THEN <<>>
    ELSE [o \in 1..EpiLen(es[e]) |-> [epi |-> e, off |-> o]] \o FlatFrom(es, e + 1)

\* The index array of the flat view of episodes es.
FlatIndex(es) == FlatFrom(es, 1)

\* register_epis: (re)builds the flat view.
RegisterEpis(t) == [t EXCEPT !.flat = FlatIndex(t.epis), !.valid = TRUE]

\* add_traj: appends the other trajectory's episodes; the flat view is
\* invalid until the next register_epis.
AddTraj(t, other) == [t EXCEPT !.epis = @ \o other.epis, !.valid = FALSE]

ScanNumEpi(t) == Len(t.epis)
ScanNumStep(t) == SumSeq(EpiLens(t.epis))
ViewNumEpi(t) == Cardinality({t.flat[p].epi : p \in 1..Len(t.flat)})
ViewNumStep(t) == Len(t.flat)

\* num_epi, num_step: derived counts, by direct scan or from the flat view.
NumEpi(t) == IF scan_counts THEN ScanNumEpi(t) ELSE ViewNumEpi(t)
NumStep(t) == IF scan_counts THEN ScanNumStep(t) ELSE ViewNumStep(t)

(***************************************************************************)
(* Episode transforms (machina.traj.epi_functional), from their contract.  *)
(***************************************************************************)
\* AddNextObs with a zero in place of the repeated last observation.
AddNextObsZeroLast(epi) ==
    ("next_obs" :> [t \in 1..Len(epi.obs) |->
                      IF t < Len(epi.obs) THEN epi.obs[t + 1] ELSE 0])
    @@ epi

\* add_next_obs: obs shifted one step forward, the last observation repeated.
AddNextObs(epi) ==
    ("next_obs" :> [t \in 1..Len(epi.obs) |->
                      IF t < Len(epi.obs) THEN epi.obs[t + 1] ELSE epi.obs[Len(epi.obs)]])
    @@ epi

\* HMask with the window counted one step too long.
HMaskOffByOne(L, h) == [j \in 1..L |-> IF j + h <= L THEN 1 ELSE 0]

\* The horizon mask of an episode of length L: timestep i (from 0) gets 1
\* iff i + h <= L.
HMask(L, h) == [j \in 1..L |-> IF (j - 1) + h <= L THEN 1 ELSE 0]

\* compute_h_masks on one episode.
ComputeHMasks(epi, h) == ("h_masks" :> HMask(EpiLen(epi), h)) @@ epi

\* The transforms on a trajectory: every episode is rewritten in place, which
\* leaves the flat view behind.
TrajAddNextObs(t) ==
    [t EXCEPT !.epis = [i \in 1..Len(@) |-> AddNextObs(@[i])], !.valid = FALSE]

TrajComputeHMasks(t, h) ==
    [t EXCEPT !.epis = [i \in 1..Len(@) |-> ComputeHMasks(@[i], h)],
              !.valid = FALSE]

Mean(xs) == <<SumSeq(xs), Len(xs)>>

\* The variance, standing for the standard deviation (its square root).
Std(xs) == <<Len(xs) * SumSq(xs) - SumSeq(xs) * SumSeq(xs), Len(xs) * Len(xs)>>

AllObs(es) == Concat([i \in 1..Len(es) |-> es[i].obs])
AllAcs(es) == Concat([i \in 1..Len(es) |-> es[i].acs])

\* normalize_obs_and_acs without statistics: they are computed from the data.
ComputeStats(es) ==
    [mean_obs |-> Mean(AllObs(es)), std_obs |-> Std(AllObs(es)),
     mean_acs |-> Mean(AllAcs(es)), std_acs |-> Std(AllAcs(es))]

\* x - mean for every x of xs, as rationals.
Centered(xs, mean) == [i \in 1..Len(xs) |-> <<xs[i] * mean[2] - mean[1], mean[2]>>]

\* (x - mean) / std applied to obs, next_obs and acs of one episode: the
\* values are centered, and the episode records in `norm` the statistics
\* that rescaled it, whose std divides the centered values.
NormalizeEpi(epi, st) ==
    [f \in {"obs", "next_obs", "acs", "norm"} |->
        CASE f = "obs" -> Centered(epi.obs, st.mean_obs)
          [] f = "next_obs" -> Centered(epi.next_obs, st.mean_obs)
          [] f = "acs" -> Centered(epi.acs, st.mean_acs)
          [] f = "norm" -> st] @@ epi

\* normalize_obs_and_acs with the statistics given.
TrajNormalize(t, st) ==
    [t EXCEPT !.epis = [i \in 1..Len(@) |-> NormalizeEpi(@[i], st)],
              !.valid = FALSE]

(***************************************************************************)
(* Advantage and return estimation (GAEData.preprocess), from its          *)
(* contract: per episode, backwards from the last step,                    *)
(*   delta[t]  = rew[t] + gamma * V(obs[t+1]) * (1 - done[t]) - V(obs[t])  *)
(*   adv[t]    = delta[t] + gamma * lambda * adv[t+1] * (1 - done[t])      *)
(*   return[t] = adv[t] + V(obs[t])                                        *)
(* with the advantage after the last step 0.  No step follows the last one *)
(* of an episode, so the value after it is taken as 0 too.  All numbers    *)
(* are rationals in lowest terms.                                          *)
(***************************************************************************)
\* 1 - done[t]
NotDone(d) == IF d THEN <<0, 1>> ELSE <<1, 1>>

\* The observations the episodes of pool p hold.
ObsValues(p) == UNION { { e.obs[t] : t \in 1..Len(e.obs) } : e \in p }

\* The predictions a value function can make on the observations of pool p.
VTables(p) == [ObsValues(p) -> {-1, 2}]

\* vs[t], and 0 after the last step.
ValueAt(vs, t) == IF t <= Len(vs) THEN vs[t] ELSE <<0, 1>>

GaeDelta(rew, v, vnext, d, gamma) ==
    RatSub(RatAdd(<<rew, 1>>, RatMul(RatMul(gamma, vnext), NotDone(d))), v)

RECURSIVE GaeAdv(_, _, _, _, _)
GaeAdv(epi, vs, gamma, lam, t) ==
    IF t > EpiLen(epi) THEN <<0, 1>>
    ELSE RatAdd(GaeDelta(epi.rews[t], vs[t], ValueAt(vs, t + 1), epi.dones[t], gamma),
                RatMul(RatMul(RatMul(gamma, lam), GaeAdv(epi, vs, gamma, lam, t + 1)),
                       NotDone(epi.dones[t])))

\* GaeReturn without the value.
GaeReturnNoValue(adv, v) == adv

\* return[t] = adv[t] + V(obs[t])
GaeReturn(adv, v) == RatAdd(adv, v)

\* One episode with the predictions vs, the advantages and the returns.
GaeEpi(epi, V, gamma, lam) ==
    The({ The({ [f \in {"vs", "advs", "rets"} |->
                   CASE f = "vs" -> vs
                     [] f = "advs" -> advs
                     [] f = "rets" ->
                          [t \in 1..EpiLen(epi) |-> GaeReturn(advs[t], vs[t])]]
                @@ epi :
                advs \in {[t \in 1..EpiLen(epi) |-> GaeAdv(epi, vs, gamma, lam, t)]} }) :
          vs \in {[t \in 1..EpiLen(epi) |-> <<V[epi.obs[t]], 1>>]} })

\* centerize=True: the overall mean subtracted from the advantages of the
\* merged dataset.  The division by the overall standard deviation (floored,
\* hence positive) rescales every entry alike and is left out.
CenterAdvs(xs) ==
    The({ The({ [i \in 1..Len(v) |-> RatSub(v[i], mean)] :
                mean \in {RatMul(RatSum(v), <<1, Len(v)>>)} }) :
          v \in {xs} })

\* GAEData(paths, shuffle=True) and preprocess(vf, gamma, lam,
\* centerize=True): the episodes with their estimates, and the merged,
\* centred advantages the trainer draws its batches from.
Preprocess(paths, V, gamma, lam) ==
    The({ [paths |-> ps,
           advs |-> CenterAdvs(Concat([i \in 1..Len(ps) |-> ps[i].advs])),
           num_epi |-> Len(paths)] :
          ps \in {[i \in 1..Len(paths) |-> GaeEpi(paths[i], V, gamma, lam)]} })

(***************************************************************************)
(* Objects and references.  Object ids are 1, 2, ...; 0 is an unbound      *)
(* name.  An object no name refers to is freed.                            *)
(***************************************************************************)
FreshId(h) == CHOOSE i \in 1..(Cardinality(DOMAIN h) + 1) :
                 i \notin DOMAIN h /\ \A j \in 1..(i - 1) : j \in DOMAIN h

Live(h, refs) == [i \in (DOMAIN h) \cap refs |-> h[i]]

NoStats == [mean_obs |-> <<0, 1>>, std_obs |-> <<0, 1>>,
            mean_acs |-> <<0, 1>>, std_acs |-> <<0, 1>>]

NoFiles == [n \in {} |-> 0]

WriteFile(fs, name, content) == (name :> content) @@ fs

\* No GAEData object is bound to `data`.
NoData == [paths |-> <<>>, advs |-> <<>>, num_epi |-> 0]

\* No BaseSAVfunc object is constructed, and none of its methods was called.
NoSavfunc == [constructed |-> FALSE]

NoCall == [method |-> "none", arg |-> <<>>, ret |-> <<>>]

(***************************************************************************)
(* The state of a driver as its script starts.                             *)
(***************************************************************************)
InitDriver ==
    /\ pc = "start"
    /\ heap = [i \in {} |-> NewTraj]
    /\ traj = 0
    /\ curr_traj = 0
    /\ epis = <<>>
    /\ norm_stats = NoStats
    /\ mpc_pol = [net |-> 0, stats |-> NoStats]
    /\ dm = 0
    /\ optim_dm = 0
    /\ pol = 0
    /\ vf = 0
    /\ optim_vf = 0
    /\ total_epi = 0
    /\ total_step = 0
    /\ counter_agg_iters = 0
    /\ max_rew = <<0, 1>>
    /\ step = 0
    /\ mean_rew = <<0, 1>>
    /\ rows = <<>>
    /\ files = NoFiles
    /\ data = NoData
    /\ collected = <<>>
    /\ saved_max_at = <<>>

InitCommon ==
    /\ InitDriver
    /\ savf = NoSavfunc
    /\ sav_call = NoCall

InitMpc ==
    /\ prog = "mpc"
    /\ args \in [num_aggregation_iters : (-1)..MaxIters,
                 num_random_rollouts : 1..MaxRandom,
                 max_episodes_per_iter : {MaxBatch},
                 max_episodes : {0}]
    /\ env_pool = EpiPool
    /\ horizon \in 1..MaxHorizon
    /\ scan_counts \in BOOLEAN
    /\ InitCommon

(***************************************************************************)
(* example/run_mpc.py                                                      *)
(***************************************************************************)
\* Lines 118-122: the random dataset D_RAND.  The noise line 122 adds to the
\* first observations is part of the values the environment yields.
RandSample ==
    /\ prog = "mpc" /\ pc = "start"
    /\ \E b \in BatchesOf(env_pool, args.num_random_rollouts) :
          /\ epis' = MakeEpis(b, 0)
          /\ collected' = collected \o MakeEpis(b, 0)
    /\ pc' = "rand_prep"
    /\ UNCHANGED <<prog, data, savf, sav_call, saved_max_at, args, env_pool, scan_counts, horizon, heap, traj,
                   curr_traj, norm_stats, mpc_pol, dm, optim_dm, pol, vf,
                   optim_vf, total_epi, total_step, counter_agg_iters,
                   max_rew, step, mean_rew, rows, files>>

\* Lines 123-129: Traj(), add_epis, add_next_obs, compute_h_masks,
\* normalize_obs_and_acs (computing the statistics), register_epis.
RandPrepTraj(es, h) ==
    LET t1 == AddEpis(NewTraj, es)
        t2 == TrajAddNextObs(t1)
        t3 == TrajComputeHMasks(t2, h)
        t4 == TrajNormalize(t3, ComputeStats(t3.epis))
    IN  RegisterEpis(t4)

RandPrep ==
    /\ prog = "mpc" /\ pc = "rand_prep"
    /\ LET o == FreshId(heap)
       IN  /\ heap' = (o :> RandPrepTraj(epis, horizon)) @@ heap
           /\ traj' = o
    /\ norm_stats' = ComputeStats(epis)
    /\ pc' = "setup"
    /\ UNCHANGED <<prog, data, savf, sav_call, saved_max_at, args, env_pool, scan_counts, horizon, curr_traj,
                   epis, mpc_pol, dm, optim_dm, pol, vf, optim_vf, total_epi,
                   total_step, counter_agg_iters, max_rew, step, mean_rew,
                   rows, files, collected>>

\* Line 154.
InitMaxRewMpc == <<-1, 1000000>>

\* Lines 136-154: the dynamics model, the MPC policy, the optimizer and the
\* counters of the train loop.
Setup ==
    /\ prog = "mpc" /\ pc = "setup"
    /\ dm' = 0
    /\ optim_dm' = 0
    /\ mpc_pol' = [net |-> 0, stats |-> norm_stats]
    /\ total_epi' = 0
    /\ total_step' = 0
    /\ counter_agg_iters' = 0
    /\ max_rew' = InitMaxRewMpc
    /\ pc' = "while"
    /\ UNCHANGED <<prog, data, savf, sav_call, saved_max_at, args, env_pool, scan_counts, horizon, heap, traj,
                   curr_traj, epis, norm_stats, pol, vf, optim_vf, step,
                   mean_rew, rows, files, collected>>

\* Line 155: the loop test; lines 200: the loop's exit.
WhileTest ==
    /\ prog = "mpc" /\ pc = "while"
    /\ pc' = IF args.num_aggregation_iters > counter_agg_iters THEN "train" ELSE "done"
    /\ UNCHANGED <<prog, data, savf, sav_call, saved_max_at, args, env_pool, scan_counts, horizon, heap, traj,
                   curr_traj, epis, norm_stats, mpc_pol, dm, optim_dm, pol,
                   vf, optim_vf, total_epi, total_step, counter_agg_iters,
                   max_rew, step, mean_rew, rows, files, collected>>

\* Lines 156-158: mpc.train_dm(traj, dm, optim_dm, ...) updates the model and
\* the optimizer.
TrainDm ==
    /\ prog = "mpc" /\ pc = "train"
    /\ dm' = dm + 1
    /\ optim_dm' = optim_dm + 1
    /\ pc' = "sample"
    /\ UNCHANGED <<prog, data, savf, sav_call, saved_max_at, args, env_pool, scan_counts, horizon, heap, traj,
                   curr_traj, epis, norm_stats, mpc_pol, pol, vf, optim_vf,
                   total_epi, total_step, counter_agg_iters, max_rew, step,
                   mean_rew, rows, files, collected>>

\* NewMpcPol built from the network as it was before any training.
StaleMpcPol(net, st) == [net |-> 0, stats |-> st]

\* Lines 160-162: MPCPol(ob_space, ac_space, dm.net, ..., mean_obs, std_obs,
\* mean_acs, std_acs, args.rnn).
NewMpcPol(net, st) == [net |-> net, stats |-> st]

\* Lines 160-164: the MPC policy is rebuilt and the sampler returns a batch.
Sample ==
    /\ prog = "mpc" /\ pc = "sample"
    /\ mpc_pol' = NewMpcPol(dm, norm_stats)
    /\ \E k \in 1..args.max_episodes_per_iter :
          \E b \in BatchesOf(env_pool, k) :
             /\ epis' = MakeEpis(b, counter_agg_iters + 1)
             /\ collected' = collected \o MakeEpis(b, counter_agg_iters + 1)
    /\ pc' = "build"
    /\ UNCHANGED <<prog, data, savf, sav_call, saved_max_at, args, env_pool, scan_counts, horizon, heap, traj,
                   curr_traj, norm_stats, dm, optim_dm, pol, vf, optim_vf,
                   total_epi, total_step, counter_agg_iters, max_rew, step,
                   mean_rew, rows, files>>

\* Lines 166-170: curr_traj = Traj(); add_epis; add_next_obs; compute_h_masks.
BuildTraj(es, h) ==
    TrajComputeHMasks(TrajAddNextObs(AddEpis(NewTraj, es)), h)

Build ==
    /\ prog = "mpc" /\ pc = "build"
    /\ LET o == FreshId(heap)
       IN  /\ heap' = (o :> BuildTraj(epis, horizon)) @@ heap
           /\ curr_traj' = o
    /\ pc' = "normalize"
    /\ UNCHANGED <<prog, data, savf, sav_call, saved_max_at, args, env_pool, scan_counts, horizon, traj, epis,
                   norm_stats, mpc_pol, dm, optim_dm, pol, vf, optim_vf,
                   total_epi, total_step, counter_agg_iters, max_rew, step,
                   mean_rew, rows, files, collected>>

\* LoopStats recomputing the statistics from the batch being normalized.
RecomputedStats(st, t) == ComputeStats(t.epis)

\* Lines 171-172: the statistics handed to normalize_obs_and_acs.
LoopStats(st, t) == st

\* Lines 171-172: traj = ef.normalize_obs_and_acs(curr_traj, mean_obs, ...,
\* return_statistic=False).  The transform rescales curr_traj's episodes in
\* place and returns that trajectory, which the name `traj` is bound to; the
\* object `traj` named before is no longer referred to.
Normalize ==
    /\ prog = "mpc" /\ pc = "normalize"
    /\ LET st == LoopStats(norm_stats, heap[curr_traj])
           h1 == [heap EXCEPT ![curr_traj] = TrajNormalize(@, st)]
       IN  /\ traj' = curr_traj
           /\ heap' = Live(h1, {curr_traj})
    /\ pc' = "register"
    /\ UNCHANGED <<prog, data, savf, sav_call, saved_max_at, args, env_pool, scan_counts, horizon, curr_traj,
                   epis, norm_stats, mpc_pol, dm, optim_dm, pol, vf, optim_vf,
                   total_epi, total_step, counter_agg_iters, max_rew, step,
                   mean_rew, rows, files, collected>>

\* Line 173: curr_traj.register_epis().
Register ==
    /\ prog = "mpc" /\ pc = "register"
    /\ heap' = [heap EXCEPT ![curr_traj] = RegisterEpis(@)]
    /\ pc' = "merge"
    /\ UNCHANGED <<prog, data, savf, sav_call, saved_max_at, args, env_pool, scan_counts, horizon, traj,
                   curr_traj, epis, norm_stats, mpc_pol, dm, optim_dm, pol,
                   vf, optim_vf, total_epi, total_step, counter_agg_iters,
                   max_rew, step, mean_rew, rows, files, collected>>

\* Line 174: traj.add_traj(curr_traj).
Merge ==
    /\ prog = "mpc" /\ pc = "merge"
    /\ heap' = [heap EXCEPT ![traj] = AddTraj(@, heap[curr_traj])]
    /\ pc' = "count"
    /\ UNCHANGED <<prog, data, savf, sav_call, saved_max_at, args, env_pool, scan_counts, horizon, traj,
                   curr_traj, epis, norm_stats, mpc_pol, dm, optim_dm, pol,
                   vf, optim_vf, total_epi, total_step, counter_agg_iters,
                   max_rew, step, mean_rew, rows, files, collected>>

\* Lines 179-180: rewards = [np.sum(epi['rews']) ...]; np.mean(rewards).
MeanRew(es) == <<SumSeq(EpiReturns(es)), Len(es)>>

\* Lines 176-184: the cumulative counters, the mean reward and one row of
\* the metrics log.
Count ==
    /\ prog = "mpc" /\ pc = "count"
    /\ total_epi' = total_epi + NumEpi(heap[curr_traj])
    /\ step' = NumStep(heap[curr_traj])
    /\ total_step' = total_step + NumStep(heap[curr_traj])
    /\ mean_rew' = MeanRew(epis)
    /\ rows' = Append(rows, [total_epi |-> total_epi', step |-> step',
                             total_step |-> total_step',
                             mean_rew |-> mean_rew'])
    /\ pc' = "save_max"
    /\ UNCHANGED <<prog, data, savf, sav_call, saved_max_at, args, env_pool, scan_counts, horizon, heap, traj,
                   curr_traj, epis, norm_stats, mpc_pol, dm, optim_dm, pol,
                   vf, optim_vf, counter_agg_iters, max_rew, files,
                   collected>>

\* IsBest with the comparison turned around.
IsBestFlipped(m, mx) == RatGt(mx, m)

\* Line 186: if mean_rew > max_rew.
IsBest(m, mx) == RatGt(m, mx)

\* Lines 186-191: the "best" checkpoint.
SaveMax ==
    /\ prog = "mpc" /\ pc = "save_max"
    /\ IF IsBest(mean_rew, max_rew)
       THEN /\ files' = WriteFile(WriteFile(files, "dm_max.pkl", dm),
                                  "optim_dm_max.pkl", optim_dm)
            /\ max_rew' = mean_rew
            /\ saved_max_at' = Append(saved_max_at, Len(rows))
       ELSE UNCHANGED <<files, max_rew, saved_max_at>>
    /\ pc' = "save_last"
    /\ UNCHANGED <<prog, data, savf, sav_call, args, env_pool, scan_counts, horizon, heap, traj,
                   curr_traj, epis, norm_stats, mpc_pol, dm, optim_dm, pol,
                   vf, optim_vf, total_epi, total_step, counter_agg_iters,
                   step, mean_rew, rows, collected>>

\* LastFilesMpc leaving the optimizer's file out.
LastFilesNoOptim(fs, d, o) == WriteFile(fs, "dm_last.pkl", d)

\* Lines 193-196: the "last" checkpoint.
LastFilesMpc(fs, d, o) ==
    WriteFile(WriteFile(fs, "dm_last.pkl", d), "optim_dm_last.pkl", o)

SaveLast ==
    /\ prog = "mpc" /\ pc = "save_last"
    /\ files' = LastFilesMpc(files, dm, optim_dm)
    /\ pc' = "incr"
    /\ UNCHANGED <<prog, data, savf, sav_call, saved_max_at, args, env_pool, scan_counts, horizon, heap, traj,
                   curr_traj, epis, norm_stats, mpc_pol, dm, optim_dm, pol,
                   vf, optim_vf, total_epi, total_step, counter_agg_iters,
                   max_rew, step, mean_rew, rows, collected>>

\* NextCounter stepping by two.
SkipCounter(c) == c + 2

\* Line 198: counter_agg_iters += 1.
NextCounter(c) == c + 1

\* Lines 198-199: the counter, and `del curr_traj`.
Incr ==
    /\ prog = "mpc" /\ pc = "incr"
    /\ counter_agg_iters' = NextCounter(counter_agg_iters)
    /\ curr_traj' = 0
    /\ heap' = Live(heap, {traj})
    /\ pc' = "while"
    /\ UNCHANGED <<prog, data, savf, sav_call, saved_max_at, args, env_pool, scan_counts, horizon, traj, epis,
                   norm_stats, mpc_pol, dm, optim_dm, pol, vf, optim_vf,
                   total_epi, total_step, max_rew, step, mean_rew, rows,
                   files, collected>>

NextMpc ==
    \/ RandSample
    \/ RandPrep
    \/ Setup
    \/ WhileTest
    \/ TrainDm
    \/ Sample
    \/ Build
    \/ Normalize
    \/ Register
    \/ Merge
    \/ Count
    \/ SaveMax
    \/ SaveLast
    \/ Incr

(***************************************************************************)
(* example/run_trpo.py                                                     *)
(***************************************************************************)
InitTrpo ==
    /\ prog = "trpo"
    /\ args \in [num_aggregation_iters : {0},
                 num_random_rollouts : {0},
                 max_episodes_per_iter : {MaxBatch},
                 max_episodes : 0..MaxEpisodes,
                 gamma : {<<1, 2>>},
                 lam : {<<1, 1>>}]
    /\ env_pool = EpiPool
    /\ horizon = 1
    /\ scan_counts = TRUE
    /\ InitCommon

\* Line 83.
InitMaxRewTrpo == <<-1000000, 1>>

\* Lines 70-83: the policy, the value function, the optimizer and the
\* counters of the train loop.
TrpoSetup ==
    /\ prog = "trpo" /\ pc = "start"
    /\ pol' = 0
    /\ vf' = 0
    /\ optim_vf' = 0
    /\ total_epi' = 0
    /\ total_step' = 0
    /\ max_rew' = InitMaxRewTrpo
    /\ pc' = "while"
    /\ UNCHANGED <<prog, data, savf, sav_call, saved_max_at, args, env_pool, scan_counts, horizon, heap, traj,
                   curr_traj, epis, norm_stats, mpc_pol, dm, optim_dm,
                   counter_agg_iters, step, mean_rew, rows, files, collected>>

\* TrpoLoopTest going on when the counts are equal.
TrpoLoopTestInclusive(mx, te) == mx >= te

\* Line 84: args.max_episodes > total_epi.
TrpoLoopTest(mx, te) == mx > te

\* Line 84: while args.max_episodes > total_epi.
TrpoWhileTest ==
    /\ prog = "trpo" /\ pc = "while"
    /\ pc' = IF TrpoLoopTest(args.max_episodes, total_epi) THEN "sample" ELSE "done"
    /\ UNCHANGED <<prog, data, savf, sav_call, saved_max_at, args, env_pool, scan_counts, horizon, heap, traj,
                   curr_traj, epis, norm_stats, mpc_pol, dm, optim_dm, pol,
                   vf, optim_vf, total_epi, total_step, counter_agg_iters,
                   max_rew, step, mean_rew, rows, files, collected>>

\* Lines 85-89: paths = sampler.sample(pol, ...).
TrpoSample ==
    /\ prog = "trpo" /\ pc = "sample"
    /\ \E k \in 1..args.max_episodes_per_iter :
          \E b \in BatchesOf(env_pool, k) :
             /\ epis' = MakeEpis(b, Len(rows) + 1)
             /\ collected' = collected \o MakeEpis(b, Len(rows) + 1)
    /\ pc' = "train"
    /\ UNCHANGED <<prog, data, savf, sav_call, saved_max_at, args, env_pool, scan_counts, horizon, heap, traj,
                   curr_traj, norm_stats, mpc_pol, dm, optim_dm, pol, vf,
                   optim_vf, total_epi, total_step, counter_agg_iters,
                   max_rew, step, mean_rew, rows, files>>

\* Lines 90-97: GAEData, preprocess and trpo.train, which updates the policy,
\* the value function and the optimizer.
TrpoTrain ==
    /\ prog = "trpo" /\ pc = "train"
    /\ \E V \in VTables(env_pool) :
          data' = Preprocess(epis, V, args.gamma, args.lam)
    /\ pol' = pol + 1
    /\ vf' = vf + 1
    /\ optim_vf' = optim_vf + 1
    /\ pc' = "count"
    /\ UNCHANGED <<prog, savf, sav_call, saved_max_at, args, env_pool, scan_counts, horizon, heap, traj,
                   curr_traj, epis, norm_stats, mpc_pol, dm, optim_dm,
                   total_epi, total_step, counter_agg_iters, max_rew, step,
                   mean_rew, rows, files, collected>>

\* Line 101: step = sum([len(path['rews']) for path in paths]).
PathSteps(paths) == SumSeq(EpiLens(paths))

\* Lines 98-107: the cumulative counters, one dumped row of the metrics log,
\* and the mean reward.  data.num_epi is the number of paths GAEData holds.
TrpoCount ==
    /\ prog = "trpo" /\ pc = "count"
    /\ total_epi' = total_epi + data.num_epi
    /\ step' = PathSteps(epis)
    /\ total_step' = total_step + PathSteps(epis)
    /\ mean_rew' = MeanRew(epis)
    /\ rows' = Append(rows, [total_epi |-> total_epi', step |-> step',
                             total_step |-> total_step',
                             mean_rew |-> mean_rew'])
    /\ pc' = "save_max"
    /\ UNCHANGED <<prog, data, savf, sav_call, saved_max_at, args, env_pool, scan_counts, horizon, heap, traj,
                   curr_traj, epis, norm_stats, mpc_pol, dm, optim_dm, pol,
                   vf, optim_vf, counter_agg_iters, max_rew, files,
                   collected>>

\* Line 108: if mean_rew > max_rew.
TrpoIsBest(m, mx) == RatGt(m, mx)

\* Lines 108-112: the "best" checkpoint.
TrpoSaveMax ==
    /\ prog = "trpo" /\ pc = "save_max"
    /\ IF TrpoIsBest(mean_rew, max_rew)
       THEN /\ files' = WriteFile(WriteFile(WriteFile(files,
                           "pol_max.pkl", pol), "vf_max.pkl", vf),
                           "optim_vf_max.pkl", optim_vf)
            /\ max_rew' = mean_rew
            /\ saved_max_at' = Append(saved_max_at, Len(rows))
       ELSE UNCHANGED <<files, max_rew, saved_max_at>>
    /\ pc' = "save_last"
    /\ UNCHANGED <<prog, data, savf, sav_call, args, env_pool, scan_counts, horizon, heap, traj,
                   curr_traj, epis, norm_stats, mpc_pol, dm, optim_dm, pol,
                   vf, optim_vf, total_epi, total_step, counter_agg_iters,
                   step, mean_rew, rows, collected>>

\* Lines 114-116: the "last" checkpoint.
LastFilesTrpo(fs, p, v, o) ==
    WriteFile(WriteFile(WriteFile(fs, "pol_last.pkl", p), "vf_last.pkl", v),
              "optim_vf_last.pkl", o)

\* Lines 114-117: the "last" checkpoint and `del data`.
TrpoSaveLast ==
    /\ prog = "trpo" /\ pc = "save_last"
    /\ files' = LastFilesTrpo(files, pol, vf, optim_vf)
    /\ data' = NoData
    /\ pc' = "while"
    /\ UNCHANGED <<prog, savf, sav_call, saved_max_at, args, env_pool, scan_counts, horizon, heap, traj,
                   curr_traj, epis, norm_stats, mpc_pol, dm, optim_dm, pol,
                   vf, optim_vf, total_epi, total_step, counter_agg_iters,
                   max_rew, step, mean_rew, rows, collected>>

NextTrpo ==
    \/ TrpoSetup
    \/ TrpoWhileTest
    \/ TrpoSample
    \/ TrpoTrain
    \/ TrpoCount
    \/ TrpoSaveMax
    \/ TrpoSaveLast

Init == InitMpc \/ InitTrpo

Next == NextMpc \/ NextTrpo

Spec == Init /\ [][Next]_vars

(***************************************************************************)
(* The checkpoint scenario: a run of five iterations whose mean episode    *)
(* rewards are 1, 3, 2, 5, 4.  The environment produces one-step episodes  *)
(* of return 1, 3 or 5, and the sampler's batches follow the scenario.     *)
(***************************************************************************)
Scenario == <<1, 3, 2, 5, 4>>

ScenarioPool ==
    { [obs |-> <<0>>, acs |-> <<0>>, rews |-> <<r>>, dones |-> <<TRUE>>] :
        r \in {1, 3, 5} }

InitScenario ==
    /\ \/ /\ prog = "mpc"
          /\ args = [num_aggregation_iters |-> Len(Scenario),
                     num_random_rollouts |-> 1,
                     max_episodes_per_iter |-> 2,
                     max_episodes |-> 0]
       \/ /\ prog = "trpo"
          /\ args = [num_aggregation_iters |-> 0,
                     num_random_rollouts |-> 0,
                     max_episodes_per_iter |-> 2,
                     max_episodes |-> 2 * Len(Scenario) - 1,
                     gamma |-> <<1, 2>>,
                     lam |-> <<1, 1>>]
    /\ env_pool = ScenarioPool
    /\ horizon = 1
    /\ scan_counts \in (IF prog = "mpc" THEN BOOLEAN ELSE {TRUE})
    /\ InitCommon

\* A batch just sampled in the loop has the scenario's mean reward.
FollowsScenario ==
    (\/ prog = "mpc" /\ pc = "build"
     \/ prog = "trpo" /\ pc = "train")
    => /\ Len(rows) < Len(Scenario)
       /\ RatEq(MeanRew(epis), <<Scenario[Len(rows) + 1], 1>>)

NextScenario == Next /\ FollowsScenario'

SpecScenario == InitScenario /\ [][NextScenario]_vars

\* The fifth iteration's best-checkpoint decision has been taken.
ScenarioDecided ==
    /\ Len(rows) = Len(Scenario)
    /\ pc \in {"save_last", "incr", "while", "done"}

\* C1 (as stated): in the run with mean rewards 1, 3, 2, 5, 4 the "best"
\* checkpoint is written exactly at iterations 2 and 4.
C1_BestAtTwoAndFour == ScenarioDecided => saved_max_at = <<2, 4>>

\* C1 (amended): in the run with mean rewards 1, 3, 2, 5, 4 the "best"
\* checkpoint is written exactly at iterations 1, 2 and 4: the first
\* iteration's mean reward 1 exceeds the initial max_rew of either driver.
C1_BestAtOneTwoFour == ScenarioDecided => saved_max_at = <<1, 2, 4>>

\* The scenario has run to the end of its fifth iteration in run_mpc, the
\* best checkpoint then holding the fourth iteration's model.
C1_Witness ==
    /\ prog = "mpc" /\ pc = "done"
    /\ Len(rows) = Len(Scenario)
    /\ \A i \in 1..Len(Scenario) : RatEq(rows[i].mean_rew, <<Scenario[i], 1>>)
    /\ files["dm_max.pkl"] = 4

(***************************************************************************)
(* Properties of the train loops.                                          *)
(***************************************************************************)
\* The episodes the loop's sampler returned (those after the random dataset).
LoopEpis == SubSeq(collected, args.num_random_rollouts + 1, Len(collected))

\* C2: the trajectory handed to mpc.train_dm holds every episode collected so
\* far, the random dataset included, and nothing else: its episode count is
\* num_random_rollouts plus the number of episodes sampled in the loop.
C2_TrainOnAllCollected ==
    (prog = "mpc" /\ pc = "train") =>
        /\ EpiIds(heap[traj].epis) = EpiIds(collected)
        /\ Len(heap[traj].epis) = args.num_random_rollouts + Len(LoopEpis)

\* The checkpoint file that holds the best model / policy.
BestFile == IF prog = "mpc" THEN "dm_max.pkl" ELSE "pol_max.pkl"

\* The earliest logged iteration whose mean reward is the maximum.
EarliestBest(rs) ==
    CHOOSE i \in 1..Len(rs) :
        /\ \A j \in 1..Len(rs) : ~RatGt(rs[j].mean_rew, rs[i].mean_rew)
        /\ \A j \in 1..(i - 1) : RatGt(rs[i].mean_rew, rs[j].mean_rew)

\* k >= 1 iterations are complete.
IterationsDone == pc \in {"while", "done"} /\ Len(rows) >= 1

\* C3: after k >= 1 completed iterations the "best" checkpoint exists and
\* holds the parameters of the earliest iteration whose mean reward is the
\* maximum over iterations 1..k (the parameters of iteration i are those
\* left by its training call, the i-th).
C3_BestIsEarliestMax ==
    IterationsDone =>
        /\ BestFile \in DOMAIN files
        /\ files[BestFile] = EarliestBest(rows)

\* Every rescaled episode a live trajectory holds.
NormalizedEpis ==
    UNION { { heap[o].epis[i] : i \in 1..Len(heap[o].epis) } : o \in DOMAIN heap }

StatsComputed == prog = "mpc" /\ pc \notin {"start", "rand_prep"}

\* The statistics the new batch would yield if they were computed again.
BatchStats == ComputeStats(epis)

\* C4: the normalization statistics are computed once, from the random
\* dataset, and never assigned again; every episode of every trajectory was
\* rescaled with them and every MPC policy is built with them.
C4_StatsFixed ==
    /\ [](StatsComputed =>
            /\ \A e \in NormalizedEpis : "norm" \in DOMAIN e => e.norm = norm_stats
            /\ pc \notin {"setup"} => mpc_pol.stats = norm_stats
            /\ pc = "setup" => norm_stats = ComputeStats(epis))
    /\ [][StatsComputed => norm_stats' = norm_stats]_vars

\* A loop batch whose own statistics differ from the fixed ones has been
\* rescaled, and the policy that sampled it was built in the loop.
C4_Witness ==
    /\ prog = "mpc" /\ pc = "register"
    /\ counter_agg_iters >= 1
    /\ BatchStats # norm_stats
    /\ \A i \in 1..Len(heap[traj].epis) : heap[traj].epis[i].norm = norm_stats
    /\ mpc_pol = [net |-> dm, stats |-> norm_stats]

\* C5: every call of mpc.train_dm receives a trajectory whose flat view is
\* registered and not stale.
C5_TrainOnRegistered ==
    (prog = "mpc" /\ pc = "train") =>
        /\ heap[traj].valid
        /\ heap[traj].flat = FlatIndex(heap[traj].epis)

\* The number of loop bodies run_mpc executes.
IterTarget == IF args.num_aggregation_iters > 0 THEN args.num_aggregation_iters ELSE 0

\* The position of a statement group in run_mpc's loop, counted from the
\* body's end.
StepsLeftInBody ==
    CASE pc = "while" -> 11
      [] pc = "train" -> 10
      [] pc = "sample" -> 9
      [] pc = "build" -> 8
      [] pc = "normalize" -> 7
      [] pc = "register" -> 6
      [] pc = "merge" -> 5
      [] pc = "count" -> 4
      [] pc = "save_max" -> 3
      [] pc = "save_last" -> 2
      [] pc = "incr" -> 1
      [] OTHER -> 0

\* Statement groups run_mpc still has to execute from the loop test on.
LoopRank ==
    IF pc = "done" THEN 0
    ELSE 1 + 12 * (IterTarget - counter_agg_iters) + StepsLeftInBody

InMpcLoop == prog = "mpc" /\ pc \notin {"start", "rand_prep", "setup"}

\* C6: run_mpc's loop runs its body exactly num_aggregation_iters times (no
\* time when that is <= 0) and then ends: it is never stuck before the end,
\* every step brings the end nearer by a measure that depends on the counter
\* and the position only, and the counter grows by one per body.
C6_FixedIterations ==
    /\ [](InMpcLoop =>
            /\ counter_agg_iters <= IterTarget
            /\ pc = "done" =>
                  /\ counter_agg_iters = IterTarget
                  /\ Len(rows) = IterTarget
                  /\ dm = IterTarget
            /\ pc # "done" => ENABLED Next)
    /\ [][InMpcLoop =>
            /\ LoopRank' < LoopRank
            /\ LoopRank' >= 0
            /\ counter_agg_iters' = IF pc = "incr" THEN counter_agg_iters + 1
                                    ELSE counter_agg_iters]_vars

\* The loop has ended after its full count of bodies, with rewards that went
\* down.
C6_Witness ==
    /\ prog = "mpc" /\ pc = "done"
    /\ args.num_aggregation_iters = MaxIters
    /\ counter_agg_iters = MaxIters
    /\ RatGt(rows[1].mean_rew, rows[2].mean_rew)

\* The episode and the offset flat position p of registered trajectory t
\* resolves to.
Resolve(t, p) == [epi |-> t.epis[t.flat[p].epi], off |-> t.flat[p].off]

\* C7: line 174's merge of B = curr_traj into A = traj, followed by a
\* registration of A, gives num_step(A) = num_step(A before) + num_step(B)
\* and num_epi(A) = num_epi(A before) + num_epi(B), every flat position
\* resolves to its source episode and offset in the A half and in the B
\* half, and B is left as it was.
C7_MergeAddsAndKeepsOther ==
    [][(prog = "mpc" /\ pc = "merge" /\ pc' = "count") =>
          LET A == RegisterEpis(heap[traj])
              B == RegisterEpis(heap[curr_traj])
              M == RegisterEpis(heap'[traj])
          IN  /\ ViewNumStep(M) = ViewNumStep(A) + ViewNumStep(B)
              /\ ViewNumEpi(M) = ViewNumEpi(A) + ViewNumEpi(B)
              /\ \A p \in 1..ViewNumStep(A) : Resolve(M, p) = Resolve(A, p)
              /\ \A p \in 1..ViewNumStep(B) :
                    Resolve(M, ViewNumStep(A) + p) = Resolve(B, p)
              /\ heap'[curr_traj] = heap[curr_traj]]_vars

\* C8: after k completed iterations of run_mpc's loop k rows are logged,
\* total_epi is the number of episodes the sampler returned in them and
\* total_step the number of their timesteps, and neither counter ever went
\* down from one row to the next.
C8_CountersMatchSampled ==
    (prog = "mpc" /\ pc \in {"while", "done"}) =>
        /\ Len(rows) = counter_agg_iters
        /\ total_epi = Len(LoopEpis)
        /\ total_step = SumSeq(EpiLens(LoopEpis))
        /\ \A i \in 1..Len(rows) : \A j \in i..Len(rows) :
              /\ rows[i].total_epi <= rows[j].total_epi
              /\ rows[i].total_step <= rows[j].total_step

\* The "last" checkpoint files exist and hold the components' parameters.
LastHoldsCurrent ==
    IF prog = "mpc"
    THEN /\ {"dm_last.pkl", "optim_dm_last.pkl"} \subseteq DOMAIN files
         /\ files["dm_last.pkl"] = dm
         /\ files["optim_dm_last.pkl"] = optim_dm
    ELSE /\ {"pol_last.pkl", "vf_last.pkl", "optim_vf_last.pkl"} \subseteq DOMAIN files
         /\ files["pol_last.pkl"] = pol
         /\ files["vf_last.pkl"] = vf
         /\ files["optim_vf_last.pkl"] = optim_vf

BestEqualsLast ==
    IF prog = "mpc"
    THEN /\ files["dm_max.pkl"] = files["dm_last.pkl"]
         /\ files["optim_dm_max.pkl"] = files["optim_dm_last.pkl"]
    ELSE /\ files["pol_max.pkl"] = files["pol_last.pkl"]
         /\ files["vf_max.pkl"] = files["vf_last.pkl"]
         /\ files["optim_vf_max.pkl"] = files["optim_vf_last.pkl"]

\* The iteration that logged the last row has written its checkpoints.
EndOfIteration ==
    /\ Len(rows) >= 1
    /\ pc \in {"incr", "while", "done"}

\* The last iteration wrote the "best" checkpoint.
BestWrittenNow == saved_max_at # <<>> /\ saved_max_at[Len(saved_max_at)] = Len(rows)

\* C9: every iteration writes the "last" checkpoint, whatever the reward,
\* after its best-checkpoint decision: while the decision is pending the
\* "last" files do not hold the current parameters yet, at the end of the
\* iteration they do, and if the iteration wrote the "best" checkpoint, best
\* and last hold the same parameters.
C9_LastAfterBest ==
    /\ pc \in {"save_max", "save_last"} => ~LastHoldsCurrent
    /\ EndOfIteration =>
          /\ LastHoldsCurrent
          /\ BestWrittenNow => BestEqualsLast

\* A second iteration ends having written best and last, after a first one
\* that had written both too.
C9_Witness ==
    /\ pc = "while" /\ Len(rows) = 2
    /\ saved_max_at = <<1, 2>>
    /\ LastHoldsCurrent /\ BestEqualsLast
    /\ files[BestFile] = 2

(***************************************************************************)
(* The horizon masks of the random dataset: run_mpc up to line 129, in an   *)
(* environment whose episodes have every length up to MaxLen.              *)
(***************************************************************************)
LengthPool ==
    { [obs |-> [t \in 1..L |-> t], acs |-> [t \in 1..L |-> 0],
       rews |-> [t \in 1..L |-> 0]] : L \in 1..MaxLen }

InitMasks ==
    /\ prog = "mpc"
    /\ args \in [num_aggregation_iters : {0},
                 num_random_rollouts : 1..MaxMaskEpis,
                 max_episodes_per_iter : {MaxBatch},
                 max_episodes : {0}]
    /\ env_pool = LengthPool
    /\ horizon \in 1..MaxMaskHorizon
    /\ scan_counts = TRUE
    /\ InitCommon

NextMasks ==
    \/ RandSample
    \/ RandPrep

SpecMasks == InitMasks /\ [][NextMasks]_vars

\* max(0, L - h + 1)
OnesExpected(L, h) == IF L - h + 1 > 0 THEN L - h + 1 ELSE 0

MaskSums(t) == [i \in 1..Len(t.epis) |-> SumSeq(t.epis[i].h_masks)]

\* C10: compute_h_masks gives every episode of length L a mask of length L
\* that is max(0, L - h + 1) ones followed by zeros only, whatever the other
\* episodes of the trajectory are; lengths 5, 3, 7 with h = 4 give the mask
\* sums 2, 0, 4.
C10_HorizonMasks ==
    (prog = "mpc" /\ pc = "setup") =>
        LET t == heap[traj]
        IN  /\ \A i \in 1..Len(t.epis) :
                  LET e == t.epis[i]
                  IN  /\ Len(e.h_masks) = EpiLen(e)
                      /\ \A j \in 1..EpiLen(e) :
                            e.h_masks[j] = IF j <= OnesExpected(EpiLen(e), horizon)
                                           THEN 1 ELSE 0
                      /\ SumSeq(e.h_masks) = OnesExpected(EpiLen(e), horizon)
            /\ (EpiLens(t.epis) = <<5, 3, 7>> /\ horizon = 4)
                  => MaskSums(t) = <<2, 0, 4>>

\* The masks of episodes of lengths 5, 3 and 7 for horizon 4 are computed.
C10_Witness ==
    /\ prog = "mpc" /\ pc = "setup"
    /\ horizon = 4
    /\ EpiLens(heap[traj].epis) = <<5, 3, 7>>
    /\ MaskSums(heap[traj]) = <<2, 0, 4>>

(***************************************************************************)
(* add_next_obs on the random dataset (lines 123-125).                     *)
(***************************************************************************)
\* The trajectory built from batch es, up to add_next_obs.
WithNextObs(es) == TrajAddNextObs(AddEpis(NewTraj, es))

\* next_obs of episode e has the length of obs and is obs one step ahead,
\* the last observation repeated.
ShiftedWithin(e) ==
    /\ Len(e.next_obs) = Len(e.obs)
    /\ \A t \in 1..(Len(e.obs) - 1) : e.next_obs[t] = e.obs[t + 1]
    /\ e.next_obs[Len(e.obs)] = e.obs[Len(e.obs)]

\* C11: add_next_obs gives every episode of length L >= 1 a next_obs of
\* length L with next_obs[t] = obs[t+1] for t < L-1 and next_obs[L-1] =
\* obs[L-1], computed from that episode's observations only, and leaves
\* obs, acs, rews and the number and order of the episodes as they were:
\* this holds of the transform applied to the batch just sampled, and of the
\* trajectory lines 123-129 leave, whose obs and next_obs are both the
\* sampled ones minus the same mean.
C11_NextObsWithinEpisode ==
    /\ (prog = "mpc" /\ pc = "rand_prep") =>
          LET t == WithNextObs(epis)
          IN  /\ Len(t.epis) = Len(epis)
              /\ \A i \in 1..Len(epis) :
                    LET e == t.epis[i]
                    IN  /\ ShiftedWithin(e)
                        /\ e.id = epis[i].id
                        /\ e.obs = epis[i].obs
                        /\ e.acs = epis[i].acs
                        /\ e.rews = epis[i].rews
                        /\ DOMAIN e = DOMAIN epis[i] \cup {"next_obs"}
    /\ (prog = "mpc" /\ pc = "setup") =>
          LET t == heap[traj]
          IN  /\ EpiIds(t.epis) = EpiIds(epis)
              /\ \A i \in 1..Len(epis) :
                    LET e == t.epis[i]
                        L == EpiLen(epis[i])
                    IN  /\ ShiftedWithin(e)
                        /\ Len(e.next_obs) = L
                        /\ e.obs = Centered(epis[i].obs, norm_stats.mean_obs)
                        /\ e.next_obs =
                              Centered([k \in 1..L |->
                                          epis[i].obs[IF k < L THEN k + 1 ELSE L]],
                                       norm_stats.mean_obs)
                        /\ e.rews = epis[i].rews

\* The random dataset holds an episode of three steps followed by one of a
\* single step and one of MaxLen steps; the first one's last next_obs is its
\* own last observation and not the first observation of the next episode.
C11_Witness ==
    /\ prog = "mpc" /\ pc = "setup"
    /\ EpiLens(heap[traj].epis) = <<3, 1, MaxLen>>
    /\ LET e == heap[traj].epis[1]
       IN  /\ e.next_obs = <<e.obs[2], e.obs[3], e.obs[3]>>
           /\ e.next_obs[3] # heap[traj].epis[2].obs[1]

(***************************************************************************)
(* The advantage estimates of run_trpo's first iteration (lines 84-91),    *)
(* for every discount and every prediction of the value function, in an    *)
(* environment whose episodes have every length up to MaxGaeLen.           *)
(***************************************************************************)
\* Episodes of L steps with observations 1..L and rewards -1, 1, 3, ...,
\* ended by done.
GaePool ==
    { [obs |-> [t \in 1..L |-> t], acs |-> [t \in 1..L |-> 0],
       rews |-> [t \in 1..L |-> 2 * t - 3],
       dones |-> [t \in 1..L |-> t = L]] : L \in 1..MaxGaeLen }

\* gamma and lambda: the ends and the middle of [0, 1].
Discounts == {<<0, 1>>, <<1, 2>>, <<1, 1>>}

InitGae ==
    /\ prog = "trpo"
    /\ args \in [num_aggregation_iters : {0},
                 num_random_rollouts : {0},
                 max_episodes_per_iter : {MaxBatch},
                 max_episodes : {1},
                 gamma : Discounts,
                 lam : Discounts]
    /\ env_pool = GaePool
    /\ horizon = 1
    /\ scan_counts = TRUE
    /\ InitCommon

NextGae ==
    \/ TrpoSetup
    \/ TrpoWhileTest
    \/ TrpoSample
    \/ TrpoTrain

SpecGae == InitGae /\ [][NextGae]_vars

\* C12: in the data preprocess leaves, every episode whose last step t has
\* done[t] = True has adv[t] = rew[t] - V(obs[t]) and return[t] = rew[t],
\* whatever episode follows it in the batch and whatever gamma and lambda
\* are; a single-step episode with reward r has advantage r - V(obs[0]) and
\* return r.  V is one function of the observation for the whole batch.
C12_GaeBoundary ==
    (prog = "trpo" /\ pc = "count") =>
        /\ data.num_epi = Len(epis)
        /\ Len(data.paths) = Len(epis)
        /\ \E V \in VTables(env_pool) :
              \A i \in 1..Len(epis) : \A t \in 1..EpiLen(epis[i]) :
                 data.paths[i].vs[t] = <<V[epis[i].obs[t]], 1>>
        /\ \A i \in 1..Len(epis) :
              LET e == data.paths[i]
                  L == EpiLen(epis[i])
              IN  /\ e.rews = epis[i].rews
                  /\ Len(e.advs) = L /\ Len(e.rets) = L
                  /\ epis[i].dones[L] =>
                        /\ e.advs[L] = RatSub(<<epis[i].rews[L], 1>>, e.vs[L])
                        /\ e.rets[L] = <<epis[i].rews[L], 1>>

\* A single-step episode of reward -1 and value 2 is followed in its batch
\* by an episode of MaxGaeLen steps whose last value is -1, with gamma = 1/2
\* and lambda = 1: its advantage is -3 and its return -1.
C12_Witness ==
    /\ prog = "trpo" /\ pc = "count"
    /\ args.gamma = <<1, 2>> /\ args.lam = <<1, 1>>
    /\ EpiLens(epis) = <<1, MaxGaeLen>>
    /\ data.paths[1].vs = << <<2, 1>> >>
    /\ data.paths[2].vs[MaxGaeLen] = <<-1, 1>>
    /\ data.paths[1].advs = << <<-3, 1>> >>
    /\ data.paths[1].rets = << <<-1, 1>> >>

(***************************************************************************)
(* The order of the steps of run_mpc's loop body.                          *)
(***************************************************************************)
BodySteps == {"train", "sample", "build", "normalize", "register", "merge",
              "count", "save_max", "save_last", "incr"}

\* The step that has to follow step p: TrainModel, SampleWithPolicy,
\* normalize and merge, record metrics, best-checkpoint decision,
\* last-checkpoint write, counter increment, and the loop test again.
FollowingStep(p) ==
    CASE p = "train" -> "sample"
      [] p = "sample" -> "build"
      [] p = "build" -> "normalize"
      [] p = "normalize" -> "register"
      [] p = "register" -> "merge"
      [] p = "merge" -> "count"
      [] p = "count" -> "save_max"
      [] p = "save_max" -> "save_last"
      [] p = "save_last" -> "incr"
      [] p = "incr" -> "while"

\* How many times a step that comes before / after position pc in the body
\* has run, in the iteration counter_agg_iters + 1.
DoneBy(steps) == counter_agg_iters + (IF pc \in steps THEN 0 ELSE 1)

\* C13: in every iteration of run_mpc's loop the steps follow one another in
\* the fixed order train_dm, sample, normalize and merge, record metrics,
\* best-checkpoint decision, last-checkpoint write, counter increment, each
\* exactly once (iteration k has seen k trainings, k samplings, k rows and k
\* last checkpoints as it passes each step); the MPC policy that samples in
\* iteration k holds the network left by the k-th train_dm; and the sampler
\* hands over one whole batch per iteration, which the rest of the body
\* reads as it was returned.
C13_FixedOrder ==
    /\ [][(prog = "mpc" /\ pc \in BodySteps) => pc' = FollowingStep(pc)]_vars
    /\ [][(prog = "mpc" /\ pc \in BodySteps \ {"sample"}) =>
             epis' = epis /\ collected' = collected]_vars
    /\ [][(prog = "mpc" /\ pc = "sample") =>
             /\ mpc_pol'.net = dm /\ dm = counter_agg_iters + 1
             /\ Len(epis') \in 1..args.max_episodes_per_iter
             /\ collected' = collected \o epis']_vars
    /\ [](prog = "mpc" /\ pc \in BodySteps =>
            /\ dm = DoneBy({"train"})
            /\ pc # "train" => mpc_pol.net = DoneBy({"train", "sample"})
            /\ Cardinality({collected[i].id[1] : i \in 1..Len(collected)} \ {0})
                  = DoneBy({"train", "sample"})
            /\ Len(rows) = DoneBy({"train", "sample", "build", "normalize",
                                   "register", "merge", "count"})
            /\ (IF "dm_last.pkl" \in DOMAIN files THEN files["dm_last.pkl"] ELSE 0)
                  = DoneBy(BodySteps \ {"incr"}))

\* The second iteration is about to increment the counter: two trainings,
\* the policy built from the second one, two rows, the last checkpoint of
\* the second model.
C13_Witness ==
    /\ prog = "mpc" /\ pc = "incr" /\ counter_agg_iters = 1
    /\ dm = 2 /\ mpc_pol.net = 2 /\ Len(rows) = 2
    /\ files["dm_last.pkl"] = 2
    /\ Len(epis) = MaxBatch

(***************************************************************************)
(* The end of run_trpo's loop.                                             *)
(***************************************************************************)
\* Episodes still to be collected.
EpisLeft == IF args.max_episodes > total_epi THEN args.max_episodes - total_epi ELSE 0

\* The position in run_trpo's loop, counted down from the step that follows
\* the counters' update.
TrpoStepsLeft ==
    CASE pc = "save_max" -> 6
      [] pc = "save_last" -> 5
      [] pc = "while" -> 4
      [] pc = "sample" -> 3
      [] pc = "train" -> 2
      [] pc = "count" -> 1
      [] OTHER -> 0

TrpoRank == IF pc = "done" THEN 0 ELSE 1 + 7 * EpisLeft + TrpoStepsLeft

InTrpoLoop == prog = "trpo" /\ pc # "start"

\* C14: run_trpo's loop goes on while total_epi < max_episodes and stops at
\* the first loop test that finds total_epi >= max_episodes: every row but
\* the last was logged below max_episodes.  Every sampling call returning at
\* least one episode, total_epi grows strictly from row to row and the loop
\* ends (it is never stuck, and each step lowers a measure of the episodes
\* left and the position).  The number of iterations is set by the episodes
\* alone: anything from max_episodes / max_episodes_per_iter, rounded up, to
\* max_episodes.
C14_StopsAtMaxEpisodes ==
    /\ [](InTrpoLoop =>
            /\ pc \in {"sample", "train", "count"} => total_epi < args.max_episodes
            /\ pc = "done" =>
                  /\ total_epi >= args.max_episodes
                  /\ \A i \in 1..(Len(rows) - 1) :
                        rows[i].total_epi < args.max_episodes
                  /\ Len(rows) <= (IF args.max_episodes > 0
                                   THEN args.max_episodes ELSE 0)
                  /\ Len(rows) * args.max_episodes_per_iter >= args.max_episodes
            /\ \A i \in 1..Len(rows) : \A j \in (i + 1)..Len(rows) :
                  rows[i].total_epi < rows[j].total_epi
            /\ pc # "done" => ENABLED Next)
    /\ [][InTrpoLoop =>
            /\ TrpoRank' < TrpoRank
            /\ TrpoRank' >= 0
            /\ pc = "count" => total_epi' > total_epi
            /\ pc # "count" => total_epi' = total_epi]_vars

\* The loop has ended after as many iterations as episodes were asked for,
\* one episode each.
C14_Witness ==
    /\ prog = "trpo" /\ pc = "done"
    /\ args.max_episodes = MaxEpisodes
    /\ Len(rows) = MaxEpisodes
    /\ total_epi = MaxEpisodes

(***************************************************************************)
(* machina/vfuncs/state_action_vfuncs/base.py: a BaseSAVfunc object and    *)
(* the calls made on it.  A space is its shape, a tensor is its shape, a   *)
(* tuple of dimensions; None is the string "None".                         *)
(***************************************************************************)
\* Shapes of observation and action spaces, of every rank up to MaxSpaceRank.
SpaceShapes == { [i \in 1..r |-> 3] : r \in 0..MaxSpaceRank }

\* Shapes of input tensors, of every rank up to MaxRank, with dimensions
\* 2, 3, ... that differ from one another and from 1.
TensorShapes == { [i \in 1..r |-> i + 1] : r \in 0..MaxRank }

\* Lines 22-34: __init__.  dp_net exists only with data_parallel.
NewSavfunc(ob_space, ac_space, net, rnn, data_parallel, parallel_dim) ==
    [constructed |-> TRUE,
     ob_space |-> ob_space,
     ac_space |-> ac_space,
     net |-> net,
     rnn |-> rnn,
     hs |-> "None",
     data_parallel |-> data_parallel,
     dp_net |-> IF data_parallel THEN <<net, parallel_dim>> ELSE <<>>,
     dp_run |-> FALSE]

\* Reset clearing the hidden state whatever rnn is.
ResetAlways(f) == [f EXCEPT !.hs = "None"]

\* Lines 36-41: reset.
Reset(f) == IF f.rnn THEN [f EXCEPT !.hs = "None"] ELSE f

\* Unsqueeze0 adding the dimension at the end.
UnsqueezeLast(shape) == shape \o <<1>>

\* Lines 53, 66: x.unsqueeze(0).
Unsqueeze0(shape) == <<1>> \o shape

\* Lines 52-53, 65-66: for _ in range(n): x = x.unsqueeze(0).
RECURSIVE UnsqueezeTimes(_, _)
UnsqueezeTimes(shape, n) ==
    IF n <= 0 THEN shape ELSE UnsqueezeTimes(Unsqueeze0(shape), n - 1)

\* Lines 47-50, 60-63.
AdditionalShape(rnn) == IF rnn THEN 2 ELSE 1

\* Lines 43-54: _check_obs_shape.
CheckObsShape(f, obs) ==
    IF Len(obs) < AdditionalShape(f.rnn) + Len(f.ob_space)
    THEN UnsqueezeTimes(obs, AdditionalShape(f.rnn) + Len(f.ob_space) - Len(obs))
    ELSE obs

\* Lines 56-67: _check_acs_shape.
CheckAcsShape(f, acs) ==
    IF Len(acs) < AdditionalShape(f.rnn) + Len(f.ac_space)
    THEN UnsqueezeTimes(acs, AdditionalShape(f.rnn) + Len(f.ac_space) - Len(acs))
    ELSE acs

\* The state after BaseSAVfunc(ob_space, ac_space, net, rnn, data_parallel,
\* parallel_dim) for spaces of every rank.
InitSav ==
    /\ prog = "savfunc"
    /\ args = [num_aggregation_iters |-> 0, num_random_rollouts |-> 0,
               max_episodes_per_iter |-> 0, max_episodes |-> 0]
    /\ env_pool = {}
    /\ horizon = 1
    /\ scan_counts = TRUE
    /\ InitDriver
    /\ \E o \in SpaceShapes, a \in SpaceShapes, r \in BOOLEAN, dp \in BOOLEAN :
          savf = NewSavfunc(o, a, 1, r, dp, IF r THEN 1 ELSE 0)
    /\ sav_call = NoCall

\* reset().
SavReset ==
    /\ prog = "savfunc"
    /\ savf' = Reset(savf)
    /\ sav_call' = [method |-> "reset", arg |-> <<>>, ret |-> <<>>]
    /\ UNCHANGED <<prog, pc, args, env_pool, scan_counts, horizon, heap, traj,
                   curr_traj, epis, norm_stats, mpc_pol, dm, optim_dm, pol, vf,
                   optim_vf, total_epi, total_step, counter_agg_iters, max_rew,
                   step, mean_rew, rows, files, data, collected, saved_max_at>>

\* _check_obs_shape(obs) on a tensor of any shape, or on the tensor the last
\* call returned.
SavCheckObs ==
    /\ prog = "savfunc"
    /\ \E x \in TensorShapes \cup {sav_call.ret} :
          sav_call' = [method |-> "obs", arg |-> x, ret |-> CheckObsShape(savf, x)]
    /\ UNCHANGED <<prog, pc, args, env_pool, scan_counts, horizon, heap, traj,
                   curr_traj, epis, norm_stats, mpc_pol, dm, optim_dm, pol, vf,
                   optim_vf, total_epi, total_step, counter_agg_iters, max_rew,
                   step, mean_rew, rows, files, data, savf, collected,
                   saved_max_at>>

\* _check_acs_shape(acs), likewise.
SavCheckAcs ==
    /\ prog = "savfunc"
    /\ \E x \in TensorShapes \cup {sav_call.ret} :
          sav_call' = [method |-> "acs", arg |-> x, ret |-> CheckAcsShape(savf, x)]
    /\ UNCHANGED <<prog, pc, args, env_pool, scan_counts, horizon, heap, traj,
                   curr_traj, epis, norm_stats, mpc_pol, dm, optim_dm, pol, vf,
                   optim_vf, total_epi, total_step, counter_agg_iters, max_rew,
                   step, mean_rew, rows, files, data, savf, collected,
                   saved_max_at>>

\* A subclass's forward pass or a caller assigns the hidden state and the
\* data-parallel switch, the two attributes the base class leaves to them.
SavAssign ==
    /\ prog = "savfunc"
    /\ \E h \in {"None", "h"}, r \in BOOLEAN :
          savf' = [savf EXCEPT !.hs = h, !.dp_run = r]
    /\ UNCHANGED <<prog, pc, args, env_pool, scan_counts, horizon, heap, traj,
                   curr_traj, epis, norm_stats, mpc_pol, dm, optim_dm, pol, vf,
                   optim_vf, total_epi, total_step, counter_agg_iters, max_rew,
                   step, mean_rew, rows, files, data, sav_call, collected,
                   saved_max_at>>

NextSav ==
    \/ SavReset
    \/ SavCheckObs
    \/ SavCheckAcs
    \/ SavAssign

SpecSav == InitSav /\ [][NextSav]_vars

\* The rank a method expects: that of its space plus 1, or plus 2 with rnn.
ExpectedRank(f, method) ==
    Len(IF method = "obs" THEN f.ob_space ELSE f.ac_space) + (IF f.rnn THEN 2 ELSE 1)

Ones(n) == [i \in 1..n |-> 1]

ShapeCalled == sav_call.method \in {"obs", "acs"}

\* C15: _check_obs_shape / _check_acs_shape return an input of rank r < E
\* with exactly E - r dimensions of size 1 put in front (rank E) and an
\* input of rank r >= E as it is, so the result's rank is max(r, E) and the
\* input's dimensions are all there, at the end and in order; the call
\* returns for every input; and a call on the result of the call before
\* returns that result again.
C15_ShapeFix ==
    /\ [](ShapeCalled =>
            LET E == ExpectedRank(savf, sav_call.method)
                x == sav_call.arg
                y == sav_call.ret
                r == Len(sav_call.arg)
            IN  /\ r < E => y = Ones(E - r) \o x /\ Len(y) = E
                /\ r >= E => y = x
                /\ Len(y) = IF r > E THEN r ELSE E
                /\ SubSeq(y, Len(y) - r + 1, Len(y)) = x
                /\ \A i \in 1..(Len(y) - r) : y[i] = 1)
    /\ [][(ShapeCalled /\ sav_call'.method = sav_call.method
                       /\ sav_call'.arg = sav_call.ret)
             => sav_call'.ret = sav_call.ret]_vars
    /\ [](prog = "savfunc" => ENABLED SavCheckObs /\ ENABLED SavCheckAcs)

\* With rnn and an observation space of rank 2, _check_obs_shape was called
\* on its own result for a tensor of shape (2, 3): the two dimensions put in
\* front the first time are not put in front again.
C15_Witness ==
    /\ prog = "savfunc"
    /\ savf.rnn /\ Len(savf.ob_space) = 2 /\ Len(savf.ac_space) = 0
    /\ sav_call = [method |-> "obs", arg |-> <<1, 1, 2, 3>>, ret |-> <<1, 1, 2, 3>>]

\* C16: a freshly constructed function has hs = None and dp_run = False;
\* whatever was done before, reset() sets hs to None when rnn is True and
\* leaves hs as it is when rnn is False, and leaves ob_space, ac_space, net,
\* rnn, data_parallel, dp_net and dp_run as they are.
C16_ResetFrame ==
    /\ prog = "savfunc" => savf.hs = "None" /\ savf.dp_run = FALSE
    /\ [][SavReset =>
             /\ savf'.hs = IF savf.rnn THEN "None" ELSE savf.hs
             /\ savf'.ob_space = savf.ob_space
             /\ savf'.ac_space = savf.ac_space
             /\ savf'.net = savf.net
             /\ savf'.rnn = savf.rnn
             /\ savf'.data_parallel = savf.data_parallel
             /\ savf'.dp_net = savf.dp_net
             /\ savf'.dp_run = savf.dp_run]_vars

\* reset() has just been called on a function without rnn whose hidden
\* state and data-parallel switch had been set: both are still set.
C16_Witness ==
    /\ prog = "savfunc"
    /\ sav_call.method = "reset"
    /\ ~savf.rnn /\ savf.hs = "h" /\ savf.dp_run /\ savf.data_parallel

====
